---- MODULE Spec2Model ----
(***************************************************************************)
(* Genetic-algorithm engine of src/main.py (classes Individual and GA and  *)
(* the driver loop).                                                       *)
(*                                                                         *)
(* Python objects are modelled by reference: `obj` is the heap of          *)
(* Individual objects, `arr` the heap of numpy arrays, and lists hold      *)
(* references (identifiers) into these heaps.                              *)
(*                                                                         *)
(* Real numbers are kept exact:                                            *)
(*   - a fitness (score + 1/steps) * 100000 is stored as the integer       *)
(*     fitness * FitDen, FitDen being a common multiple of every steps     *)
(*     value the oracle returns;                                           *)
(*   - avg_score is the pair <<numerator, denominator>>;                   *)
(*   - a gene is stored in units of 0.2, the scale of the Gaussian         *)
(*     mutation, so that 0.2 * n is the integer n.                         *)
(***************************************************************************)
EXTENDS Integers, Sequences, FiniteSets, TLC

VARIABLES
    p_size, c_size, genes_len, mutate_rate,   \* GA configuration (main.py:42-45)
    population,                               \* GA.population: list of Individual references
    best_individual,                          \* GA.best_individual: reference or None
    avg_score,                                \* GA.avg_score: <<num, den>>
    obj,                                      \* heap of Individual objects
    arr,                                      \* heap of numpy gene arrays
    children,                                 \* local list `children` of evolve()
    files,                                    \* contents of genes/all/{i}
    generation,                               \* driver's generation counter
    pc,                                       \* position of the running call
    arg, ret                                  \* arguments / result of the latest call

vars == <<p_size, c_size, genes_len, mutate_rate, population, best_individual,
          avg_score, obj, arr, children, files, generation, pc, arg, ret>>

-----------------------------------------------------------------------------
(* Bounds of the model *)

MaxPSize == 2
MaxCSize == 2
MaxGenesLen == 1
MaxGeneVal == 1
MaxNoise == 1
MaxScore == 1
MaxSteps == 2
SaveEvery == 2
MaxPop == 3
MaxDraws == 2
MaxVecLen == 3

\* The driver is followed for one save period.
MaxGen == SaveEvery

(* Program constants *)

None == 0
FitScale == 100000

-----------------------------------------------------------------------------
(* Helpers *)

Range(s) == {s[i] : i \in DOMAIN s}

Min(a, b) == IF a < b THEN a ELSE b

Max(a, b) == IF a > b THEN a ELSE b

RECURSIVE Gcd(_, _)
Gcd(a, b) == IF b = 0 THEN a ELSE Gcd(b, a % b)

RECURSIVE LcmUpTo(_)
LcmUpTo(n) == IF n <= 1 THEN 1 ELSE LET l == LcmUpTo(n - 1) IN (l * n) \div Gcd(l, n)

\* Common denominator of the 1/steps terms.
FitDen == LcmUpTo(MaxSteps)

\* All orders random.shuffle can leave a list in.
Perms(s) ==
    {[i \in 1..Len(s) |-> s[f[i]]] :
        f \in {g \in [1..Len(s) -> 1..Len(s)] : \A i, j \in 1..Len(s) : g[i] = g[j] => i = j}}

\* The smallest identifier not in use.
Fresh(used) == CHOOSE i \in 1..(Cardinality(used) + 1) : i \notin used

-----------------------------------------------------------------------------
(* class Individual *)

\* Individual.__init__; `evals` counts the get_fitness calls made on the object.
NewIndividual(genes) ==
    [genes |-> genes, score |-> 0, steps |-> 0, fitness |-> 0, seed |-> None, evals |-> 0]

\* The oracle Game([genes]).play(): (score, steps, seed) with score >= 0, steps >= 1.
GamePlay ==
    [score : 0..MaxScore, steps : 1..MaxSteps, seed : {1}]

\* (score + 1 / steps) * 100000, in units of 1/FitDen.
Fitness(score, steps) == (score * FitDen + FitDen \div steps) * FitScale

\* Faulty variant: an individual that holds a result is not evaluated again.
GetFitnessOnce(ind, out) ==
    IF ind.evals >= 1 THEN ind
    ELSE [ind EXCEPT !.score = out.score, !.steps = out.steps, !.seed = out.seed,
                     !.fitness = Fitness(out.score, out.steps),
                     !.evals = @ + 1]

\* Individual.get_fitness with the oracle returning `out`.
GetFitness(ind, out) ==
    [ind EXCEPT !.score = out.score, !.steps = out.steps, !.seed = out.seed,
                !.fitness = Fitness(out.score, out.steps),
                !.evals = @ + 1]

-----------------------------------------------------------------------------
(* class GA: reproduction operators *)

\* dst[:n] = src[:n] on numpy arrays: the elements are copied into dst's storage.
AssignPrefix(h, dst, src, n) ==
    [h EXCEPT ![dst] = [j \in 1..Len(h[dst]) |-> IF j <= n THEN h[src][j] ELSE h[dst][j]]]

\* GA.crossover with the crossover point `point`.  The right-hand side
\* (c2_genes[:point + 1], c1_genes[:point + 1]) is a pair of numpy basic slices,
\* i.e. views on the arrays' storage, not copies; the two targets are then
\* assigned left to right, so the second assignment reads c1_genes as already
\* overwritten by the first.
Crossover(h, c1_genes, c2_genes, point) ==
    LET h1 == AssignPrefix(h, c1_genes, c2_genes, point + 1)
    IN  AssignPrefix(h1, c2_genes, c1_genes, point + 1)

\* Values np.random.random can return, in percent, as compared with mutate_rate.
RandVals == {0, 99}

\* Values np.random.normal can return (on the integer grid).
NoiseVals == 1..MaxNoise

\* GA.mutate with the draws `rnd` of np.random.random and `noise` of np.random.normal.
Mutate(h, c_genes, rate, rnd, noise) ==
    [h EXCEPT ![c_genes] =
        [j \in 1..Len(h[c_genes]) |->
            IF rnd[j] < rate THEN h[c_genes][j] + noise[j] ELSE h[c_genes][j]]]

\* Faulty variant: no copy, the child shares the parent's array.
GenesAlias(h, genes) == [heap |-> h, ref |-> genes]

\* genes.copy(): a new array with the same elements; .ref is the new reference.
GenesCopy(h, genes) ==
    LET r == Fresh(DOMAIN h)
    IN  [heap |-> (r :> h[genes]) @@ h, ref |-> r]

-----------------------------------------------------------------------------
(* class GA: selection operators *)

\* Faulty variant: ascending order.
RECURSIVE InsertAsc(_, _, _)
InsertAsc(o, s, x) ==
    IF s = <<>> THEN <<x>>
    ELSE IF o[Head(s)].fitness <= o[x].fitness
         THEN <<Head(s)>> \o InsertAsc(o, Tail(s), x)
         ELSE <<x>> \o s

\* Insert reference x into the list s, sorted by descending fitness, after every
\* element whose fitness is >= that of x (sorted() is stable, also with reverse=True).
RECURSIVE InsertDesc(_, _, _)
InsertDesc(o, s, x) ==
    IF s = <<>> THEN <<x>>
    ELSE IF o[Head(s)].fitness >= o[x].fitness
         THEN <<Head(s)>> \o InsertDesc(o, Tail(s), x)
         ELSE <<x>> \o s

\* Faulty variant: the list is left in population order.
Unsorted(o, s) == s

\* sorted(population, key=fitness, reverse=True)
RECURSIVE SortedDesc(_, _)
SortedDesc(o, s) ==
    IF s = <<>> THEN <<>>
    ELSE InsertDesc(o, SortedDesc(o, SubSeq(s, 1, Len(s) - 1)), s[Len(s)])

\* s[:size] of a Python list (a negative size counts from the end).
Slice(s, size) ==
    IF size >= 0 THEN SubSeq(s, 1, Min(size, Len(s)))
    ELSE SubSeq(s, 1, Max(Len(s) + size, 0))

\* Faulty variant: one individual too many.
ElitismSelectionOneMore(o, pop, size) == Slice(SortedDesc(o, pop), size + 1)

\* GA.elitism_selection
ElitismSelection(o, pop, size) == Slice(SortedDesc(o, pop), size)

\* sum(individual.fitness for individual in population[:n])
RECURSIVE Cumulative(_, _, _)
Cumulative(o, pop, n) ==
    IF n = 0 THEN 0 ELSE Cumulative(o, pop, n - 1) + o[pop[n]].fitness

Wheel(o, pop) == Cumulative(o, pop, Len(pop))

\* Values np.random.uniform(0, wheel) can return: the points of [0, wheel) on
\* the grid of step FitScale (every fitness is a multiple of FitScale).
Picks(wheel) ==
    IF wheel <= 0 THEN {0} ELSE {k * FitScale : k \in 0..((wheel \div FitScale) - 1)}

\* Faulty variant: `current >= pick` in place of `current > pick`.
RouletteDrawInclusive(o, pop, pick) ==
    LET hit == {i \in 1..Len(pop) : Cumulative(o, pop, i) >= pick}
    IN  IF hit = {} THEN <<>>
        ELSE <<pop[CHOOSE i \in hit : \A j \in hit : i <= j]>>

\* One draw of GA.roulette_wheel_selection (lines 85-90): the list of what the
\* inner loop appends, i.e. the first individual whose cumulative fitness
\* exceeds pick, or nothing when the loop ends without a break.
RouletteDraw(o, pop, pick) ==
    LET hit == {i \in 1..Len(pop) : Cumulative(o, pop, i) > pick}
    IN  IF hit = {} THEN <<>>
        ELSE <<pop[CHOOSE i \in hit : \A j \in hit : i <= j]>>

\* GA.roulette_wheel_selection(size) with the draws `picks` (one per iteration).
RECURSIVE RouletteWheelSelection(_, _, _)
RouletteWheelSelection(o, pop, picks) ==
    IF picks = <<>> THEN <<>>
    ELSE RouletteWheelSelection(o, pop, SubSeq(picks, 1, Len(picks) - 1))
            \o RouletteDraw(o, pop, picks[Len(picks)])

-----------------------------------------------------------------------------
(* State machine: the GA object driven by the loop of __main__ *)

NoCall == [op |-> "none", val |-> <<>>]
NoArg == [n |-> 0, a |-> <<>>, b |-> <<>>]

\* Percentages mutate_rate is drawn from.
MutateRates == {0, 50}

\* GA.__init__ with the given configuration.
Constructed(p, c, l, m) ==
    /\ p_size = p /\ c_size = c /\ genes_len = l /\ mutate_rate = m
    /\ population = <<>>
    /\ best_individual = None
    /\ avg_score = <<0, 1>>
    /\ obj = <<>> /\ arr = <<>>
    /\ children = <<>>
    /\ files = <<>>
    /\ generation = 0
    /\ pc = "new"
    /\ arg = NoArg /\ ret = NoCall

\* Configurations that meet the preconditions: p_size >= 1 and c_size even.
Init ==
    \E p \in 1..MaxPSize, c \in {x \in 0..MaxCSize : x % 2 = 0},
       l \in 1..MaxGenesLen, m \in MutateRates :
        Constructed(p, c, l, m)

\* Values np.random.uniform(-1, 1) is drawn from (grid of step 0.2).
GeneVals == 0..MaxGeneVal

\* GA.generate_ancestor: p_size individuals with independently drawn genes.
\* range(p_size) is empty when p_size <= 0.
GenerateAncestor ==
    /\ pc = "new"
    /\ \E g \in [1..Max(p_size, 0) -> [1..genes_len -> GeneVals]] :
        /\ arr' = g
        /\ obj' = [i \in 1..Max(p_size, 0) |-> NewIndividual(i)]
        /\ population' = [i \in 1..Max(p_size, 0) |-> i]
    /\ pc' = "idle"
    /\ UNCHANGED <<p_size, c_size, genes_len, mutate_rate, best_individual, avg_score,
                   children, files, generation, arg, ret>>

\* for individual in population: individual.get_fitness(), with oracle results
\* outs[1..n] in population order.
RECURSIVE EvaluateAll(_, _, _, _)
EvaluateAll(o, pop, outs, n) ==
    IF n = 0 THEN o
    ELSE LET prev == EvaluateAll(o, pop, outs, n - 1)
         IN  [prev EXCEPT ![pop[n]] = GetFitness(@, outs[n])]

\* sum_score after the loop of lines 97-99: each score is read right after its
\* individual is evaluated.
RECURSIVE SumScore(_, _, _, _)
SumScore(o, pop, outs, n) ==
    IF n = 0 THEN 0
    ELSE SumScore(o, pop, outs, n - 1) + EvaluateAll(o, pop, outs, n)[pop[n]].score

\* Faulty variant: the mean over the p_size survivors.
AvgScoreOverParents(sum_score, pop) == <<sum_score, p_size>>

\* sum_score / len(self.population)
AvgScore(sum_score, pop) == <<sum_score, Len(pop)>>

\* evolve(), lines 96-100 (entered from the driver, lines 161-162).  The
\* division raises ZeroDivisionError on an empty population.
EvolveEvaluate ==
    /\ pc = "idle"
    /\ generation < MaxGen
    /\ generation' = generation + 1
    /\ \E outs \in [1..Len(population) -> GamePlay] :
        /\ obj' = EvaluateAll(obj, population, outs, Len(population))
        /\ IF Len(population) = 0
           THEN /\ pc' = "raised"
                /\ UNCHANGED avg_score
           ELSE /\ pc' = "select"
                /\ avg_score' = AvgScore(SumScore(obj, population, outs, Len(population)),
                                         population)
    /\ ret' = NoCall
    /\ UNCHANGED <<p_size, c_size, genes_len, mutate_rate, population, best_individual,
                   arr, children, files, arg>>

\* Objects no longer referenced are reclaimed.
Reachable(o, ids) == [i \in (DOMAIN o) \cap ids |-> o[i]]

\* evolve(), lines 102-107.
EvolveSelect ==
    /\ pc = "select"
    /\ LET parents == ElitismSelection(obj, population, p_size)
           live == Reachable(obj, Range(parents))
       IN  /\ best_individual' = parents[1]
           /\ \E shuffled \in Perms(parents) : population' = shuffled
           /\ obj' = live
           /\ arr' = Reachable(arr, {live[i].genes : i \in DOMAIN live})
    /\ children' = <<>>
    /\ pc' = "reproduce"
    /\ UNCHANGED <<p_size, c_size, genes_len, mutate_rate, avg_score, files,
                   generation, arg, ret>>

\* Results GA.roulette_wheel_selection(size) can return, over all its draws.
RouletteResults(o, pop, size) ==
    {RouletteWheelSelection(o, pop, picks) : picks \in [1..size -> Picks(Wheel(o, pop))]}

\* Heaps GA.mutate(c_genes) can leave, over all its draws.
MutateResults(h, c_genes, rate) ==
    {Mutate(h, c_genes, rate, rnd, noise) :
        rnd \in [1..Len(h[c_genes]) -> RandVals], noise \in [1..Len(h[c_genes]) -> NoiseVals]}

\* evolve(), lines 109-115: one iteration of the while loop.  Unpacking the
\* selection into p1, p2 needs exactly two elements.
EvolveReproduce ==
    /\ pc = "reproduce"
    /\ Len(children) < c_size
    /\ \E sel \in RouletteResults(obj, population, 2) :
        /\ Len(sel) = 2
        /\ LET p1 == sel[1]
               p2 == sel[2]
               k1 == GenesCopy(arr, obj[p1].genes)
               k2 == GenesCopy(k1.heap, obj[p2].genes)
               c1 == Fresh(DOMAIN obj)
               c2 == Fresh((DOMAIN obj) \cup {c1})
           IN  /\ \E point \in 0..(genes_len - 1) :
                    \E h2 \in MutateResults(Crossover(k2.heap, k1.ref, k2.ref, point),
                                            k1.ref, mutate_rate) :
                        \E h3 \in MutateResults(h2, k2.ref, mutate_rate) :
                            arr' = h3
               /\ obj' = (c1 :> NewIndividual(k1.ref)) @@ (c2 :> NewIndividual(k2.ref)) @@ obj
               /\ children' = children \o <<c1, c2>>
    /\ UNCHANGED <<p_size, c_size, genes_len, mutate_rate, population, best_individual,
                   avg_score, files, generation, pc, arg, ret>>

\* The heaps after the list `pop` has become self.population: references are
\* opaque, so the objects are renamed by their position in the list (and the
\* arrays by the first position that refers to them); unreferenced ones go.
Renamed(o, h, pop) ==
    LET refOf(i) == o[pop[i]].genes
        newRef(i) == CHOOSE j \in 1..Len(pop) :
                        /\ refOf(j) = refOf(i)
                        /\ \A k \in 1..Len(pop) : refOf(k) = refOf(i) => j <= k
    IN  [obj |-> [i \in 1..Len(pop) |-> [o[pop[i]] EXCEPT !.genes = newRef(i)]],
         arr |-> [r \in {newRef(i) : i \in 1..Len(pop)} |-> h[refOf(r)]]]

\* The position of the object `id` in the list `pop` (None stays None).
PositionIn(pop, id) ==
    IF id = None THEN None ELSE CHOOSE i \in 1..Len(pop) : pop[i] = id

\* Faulty variant: only c_size children are kept.
ExtendTruncated(pop, ch) == pop \o SubSeq(ch, 1, c_size)

\* self.population.extend(children)
Extend(pop, ch) == pop \o ch

\* evolve(), lines 117-118, once the while loop has ended; then the driver's
\* test of line 175.
EvolveReplace ==
    /\ pc = "reproduce"
    /\ ~(Len(children) < c_size)
    /\ \E shuffled \in Perms(children) :
        LET extended == Extend(population, shuffled)
            heaps == Renamed(obj, arr, extended)
        IN  /\ population' = [i \in 1..Len(extended) |-> i]
            /\ obj' = heaps.obj
            /\ arr' = heaps.arr
            /\ best_individual' = PositionIn(extended, best_individual)
    /\ children' = <<>>
    /\ pc' = IF generation % SaveEvery = 0 THEN "save" ELSE "idle"
    /\ ret' = [op |-> "evolve", val |-> <<>>]
    /\ UNCHANGED <<p_size, c_size, genes_len, mutate_rate, avg_score,
                   files, generation, arg>>

\* Files written by the loop of lines 136-140: one per index of the selected
\* list, holding the genes of self.population[i].
RECURSIVE WriteAll(_, _, _, _, _)
WriteAll(f, o, h, pop, n) ==
    IF n = 0 THEN f
    ELSE ((n - 1) :> h[o[pop[n]].genes]) @@ WriteAll(f, o, h, pop, n - 1)

\* save_all(), called by the driver after every SaveEvery-th evolve()
\* (lines 175-176, where the period is 20).
SaveAll ==
    /\ pc = "save"
    /\ \E outs \in [1..Len(population) -> GamePlay] :
        LET o == EvaluateAll(obj, population, outs, Len(population))
            selected == ElitismSelection(o, population, p_size)
        IN  /\ obj' = o
            /\ files' = WriteAll(files, o, arr, population, Len(selected))
    /\ ret' = [op |-> "save_all", val |-> <<>>]
    /\ pc' = "idle"
    /\ UNCHANGED <<p_size, c_size, genes_len, mutate_rate, population, best_individual,
                   avg_score, arr, children, generation, arg>>

Next ==
    \/ GenerateAncestor
    \/ EvolveEvaluate
    \/ EvolveSelect
    \/ EvolveReproduce
    \/ EvolveReplace
    \/ SaveAll

Spec == Init /\ [][Next]_vars

-----------------------------------------------------------------------------
(* The same machine started from configurations that break a precondition *)

InitConfig ==
    \E p \in (-1)..MaxPSize, c \in (-1)..MaxCSize, l \in 1..MaxGenesLen, m \in MutateRates :
        /\ p <= 0 \/ c % 2 # 0
        /\ Constructed(p, c, l, m)

SpecConfig == InitConfig /\ [][Next]_vars

-----------------------------------------------------------------------------
(* GA.crossover called on two arrays of length genes_len *)

InitCrossover ==
    \E l \in 1..MaxVecLen :
        \E g1, g2 \in [1..l -> GeneVals] :
            /\ p_size = 1 /\ c_size = 0 /\ genes_len = l /\ mutate_rate = 0
            /\ population = <<>> /\ best_individual = None /\ avg_score = <<0, 1>>
            /\ obj = <<>>
            /\ arr = <<g1, g2>>
            /\ children = <<>> /\ files = <<>> /\ generation = 0
            /\ pc = "call"
            /\ arg = NoArg /\ ret = NoCall

\* crossover(c1_genes, c2_genes) on the arrays 1 and 2; line 65 draws the point.
CallCrossover ==
    /\ pc = "call"
    /\ \E point \in 0..(genes_len - 1) :
        /\ arr' = Crossover(arr, 1, 2, point)
        /\ arg' = [n |-> point, a |-> arr[1], b |-> arr[2]]
    /\ ret' = [op |-> "crossover", val |-> <<>>]
    /\ pc' = "returned"
    /\ UNCHANGED <<p_size, c_size, genes_len, mutate_rate, population, best_individual,
                   avg_score, obj, children, files, generation>>

SpecCrossover == InitCrossover /\ [][CallCrossover]_vars

-----------------------------------------------------------------------------
(* The selection operators called on a population *)

\* An individual as a population can hold it: not yet evaluated, or evaluated.
Individuals(genes) ==
    {NewIndividual(genes)} \cup {GetFitness(NewIndividual(genes), out) : out \in GamePlay}

InitSelection ==
    \E n \in 0..MaxPop :
        \E o \in [1..n -> Individuals(1)] :
            /\ p_size = n /\ c_size = 0 /\ genes_len = 1 /\ mutate_rate = 0
            /\ population = [i \in 1..n |-> i]
            /\ best_individual = None /\ avg_score = <<0, 1>>
            /\ obj = [i \in 1..n |-> [o[i] EXCEPT !.genes = i]]
            /\ arr = [i \in 1..n |-> <<0>>]
            /\ children = <<>> /\ files = <<>> /\ generation = 0
            /\ pc = "call"
            /\ arg = NoArg /\ ret = NoCall

\* elitism_selection(size)
CallElitismSelection ==
    /\ pc = "call"
    /\ \E size \in 0..Len(population) :
        /\ arg' = [n |-> size, a |-> <<>>, b |-> <<>>]
        /\ ret' = [op |-> "elitism_selection", val |-> ElitismSelection(obj, population, size)]
    /\ pc' = "returned"
    /\ UNCHANGED <<p_size, c_size, genes_len, mutate_rate, population, best_individual,
                   avg_score, obj, arr, children, files, generation>>

\* roulette_wheel_selection(size), with the draws of line 84
CallRouletteWheelSelection ==
    /\ pc = "call"
    /\ \E size \in 0..MaxDraws :
        \E picks \in [1..size -> Picks(Wheel(obj, population))] :
            /\ arg' = [n |-> size, a |-> picks, b |-> <<>>]
            /\ ret' = [op |-> "roulette_wheel_selection",
                       val |-> RouletteWheelSelection(obj, population, picks)]
    /\ pc' = "returned"
    /\ UNCHANGED <<p_size, c_size, genes_len, mutate_rate, population, best_individual,
                   avg_score, obj, arr, children, files, generation>>

NextSelection == CallElitismSelection \/ CallRouletteWheelSelection

SpecSelection == InitSelection /\ [][NextSelection]_vars

-----------------------------------------------------------------------------
(* Properties *)

\* The fitness fields of an Individual.
Outcome(ind) == <<ind.score, ind.steps, ind.seed, ind.fitness>>

\* sum of the scores held by the individuals of pop[1..n]
RECURSIVE ScoreSum(_, _, _)
ScoreSum(o, pop, n) == IF n = 0 THEN 0 ELSE ScoreSum(o, pop, n - 1) + o[pop[n]].score

AfterEvolve == pc \in {"idle", "save"} /\ generation >= 1

\* C1: after crossover(g1, g2) with point p, g1[0..p] is the original g2[0..p],
\* g2[0..p] is the original g1[0..p], and the components beyond p are unchanged.
CE_C1 ==
    ret.op = "crossover" =>
        \A j \in 1..genes_len :
            /\ arr[1][j] = IF j <= arg.n + 1 THEN arg.b[j] ELSE arg.a[j]
            /\ arr[2][j] = IF j <= arg.n + 1 THEN arg.a[j] ELSE arg.b[j]

\* C2: the population holds p_size + c_size individuals after every evolve(),
\* p_size individuals before the first one, and p_size individuals after the
\* parent selection and throughout the reproduction phase.
Thm_C2 ==
    /\ AfterEvolve => Len(population) = p_size + c_size
    /\ pc = "idle" /\ generation = 0 => Len(population) = p_size
    /\ pc = "reproduce" => Len(population) = p_size

Wit_C2 ==
    /\ AfterEvolve /\ generation >= 2
    /\ c_size > 0
    /\ Len(population) = p_size + c_size

\* C3: the parent selection of evolve() records as best_individual a member of
\* the population just evaluated whose fitness is >= every evaluated fitness
\* and whose score is the maximum evaluated score, a lower score always giving
\* a strictly lower fitness; the rest of evolve() keeps that individual in the
\* population and leaves it and its fields as recorded.
BestChosen ==
    pc = "select" =>
        /\ best_individual' \in Range(population)
        /\ obj'[best_individual'] = obj[best_individual']
        /\ \A i \in Range(population) :
            /\ obj[best_individual'].fitness >= obj[i].fitness
            /\ obj[best_individual'].score >= obj[i].score
        /\ \A i, j \in Range(population) :
            obj[i].score < obj[j].score => obj[i].fitness < obj[j].fitness

BestKept ==
    pc = "reproduce" =>
        /\ best_individual' \in Range(population')
        /\ Outcome(obj'[best_individual']) = Outcome(obj[best_individual])
        /\ arr'[obj'[best_individual'].genes] = arr[obj[best_individual].genes]

Thm_C3 == [][BestChosen /\ BestKept]_vars

Wit_C3 ==
    /\ AfterEvolve
    /\ \E i \in Range(population) :
        /\ obj[i].steps >= 1
        /\ obj[i].score < obj[best_individual].score
        /\ obj[i].steps < obj[best_individual].steps

\* C4: save_all() writes to slot i, for i in 0..p_size-1, the genes of the
\* individual ranked i by descending re-evaluated fitness.
CE_C4 ==
    ret.op = "save_all" =>
        LET selected == ElitismSelection(obj, population, p_size)
        IN  /\ DOMAIN files = 0..(p_size - 1)
            /\ \A i \in 0..(p_size - 1) : files[i] = arr[obj[selected[i + 1]].genes]

\* C5: elitism_selection(k), 0 <= k <= population size, returns k distinct
\* members of the population in non-increasing fitness order, and no member
\* left out has a fitness above that of a returned one.
Thm_C5 ==
    ret.op = "elitism_selection" =>
        LET r == ret.val
        IN  /\ Len(r) = arg.n
            /\ \A j \in 1..Len(r) : r[j] \in Range(population)
            /\ \A j, k \in 1..Len(r) : r[j] = r[k] => j = k
            /\ \A j, k \in 1..Len(r) : j < k => obj[r[j]].fitness >= obj[r[k]].fitness
            /\ \A i \in Range(population) \ Range(r) :
                \A j \in 1..Len(r) : obj[i].fitness <= obj[r[j]].fitness

Wit_C5 ==
    /\ ret.op = "elitism_selection"
    /\ arg.n >= 1 /\ arg.n < Len(population)
    /\ ret.val # SubSeq(population, 1, arg.n)

\* C6: on a population of at least one individual (evolve() never calls it on
\* less) whose fitnesses are all > 0, roulette_wheel_selection(k) returns k members of the population; a pick in [0, wheel) selects individual
\* i exactly when it lies in [cumulative(i-1), cumulative(i)), i.e. i is the
\* first individual whose cumulative fitness exceeds the pick, so the picks
\* that select i make up a share fitness_i of the wheel.
Thm_C6 ==
    population # <<>> /\ (\A i \in Range(population) : obj[i].fitness > 0) =>
        /\ ret.op = "roulette_wheel_selection" =>
            /\ Len(ret.val) = arg.n
            /\ \A j \in 1..Len(ret.val) : ret.val[j] \in Range(population)
            /\ \A j \in 1..Len(ret.val) :
                \E i \in 1..Len(population) :
                    /\ ret.val[j] = population[i]
                    /\ Cumulative(obj, population, i - 1) <= arg.a[j]
                    /\ arg.a[j] < Cumulative(obj, population, i)
        /\ \A i \in 1..Len(population) :
            LET chosen == {pick \in Picks(Wheel(obj, population)) :
                               RouletteDraw(obj, population, pick) = <<population[i]>>}
            IN  /\ chosen = {pick \in Picks(Wheel(obj, population)) :
                                /\ Cumulative(obj, population, i - 1) <= pick
                                /\ pick < Cumulative(obj, population, i)}
                /\ Cardinality(chosen) * FitScale = obj[population[i]].fitness

Wit_C6 ==
    /\ \A i \in Range(population) : obj[i].fitness > 0
    /\ ret.op = "roulette_wheel_selection"
    /\ Len(population) >= 2
    /\ Len(ret.val) = 2
    /\ ret.val[1] = ret.val[2]
    /\ ret.val[1] = population[2]

\* C7: evolve() sets avg_score to the sum of the scores the oracle returned in
\* this call divided by the size of the population it evaluated (p_size in the
\* first generation, p_size + c_size later), and the rest of the call keeps it.
AvgComputed ==
    pc = "idle" /\ pc' = "select" =>
        LET n == IF generation' = 1 THEN p_size ELSE p_size + c_size
        IN  /\ Len(population) = n
            /\ avg_score'[2] # 0
            /\ avg_score'[1] * n = ScoreSum(obj', population, n) * avg_score'[2]

AvgKept == pc \in {"select", "reproduce"} => avg_score' = avg_score

Thm_C7 == [][AvgComputed /\ AvgKept]_vars

Wit_C7 ==
    /\ AfterEvolve /\ generation >= 2
    /\ c_size > 0
    /\ avg_score[1] > 0
    /\ avg_score[2] = p_size + c_size

\* C8 (as claimed): an individual that has been evaluated is never evaluated again.
CE_C8 == \A i \in DOMAIN obj : obj[i].evals <= 1

\* C8 (amended): every evolve() and every save_all() evaluates each individual
\* of the current population once more, evaluated before or not; no other step
\* changes the fitness fields of an individual.
EvaluatedAgain ==
    (pc = "idle" /\ pc' = "select") \/ pc = "save" =>
        \A i \in Range(population) :
            /\ obj'[i].evals = obj[i].evals + 1
            /\ obj'[i].seed # None

FieldsKept ==
    /\ pc = "select" => \A i \in DOMAIN obj' : obj'[i] = obj[i]
    /\ pc = "reproduce" /\ pc' = "reproduce" => \A i \in DOMAIN obj : obj'[i] = obj[i]
    /\ pc = "reproduce" /\ pc' # "reproduce" =>
        \A k \in 1..Len(population) :
            /\ Outcome(obj'[population'[k]]) = Outcome(obj[population[k]])
            /\ obj'[population'[k]].evals = obj[population[k]].evals

Thm_C8 == [][EvaluatedAgain /\ FieldsKept]_vars

Wit_C8 ==
    /\ best_individual # None
    /\ obj[best_individual].evals >= 2

\* C9: an iteration of the reproduction loop leaves the genes of every
\* individual of the population as they were, and gives its two children
\* arrays that are new, distinct from each other and from every parent's.
Thm_C9 ==
    [][pc = "reproduce" /\ pc' = "reproduce" =>
        LET c1 == children'[Len(children') - 1]
            c2 == children'[Len(children')]
        IN  /\ \A i \in Range(population) :
                /\ obj'[i].genes = obj[i].genes
                /\ arr'[obj[i].genes] = arr[obj[i].genes]
            /\ \A i \in Range(children) :
                /\ obj'[i].genes = obj[i].genes
                /\ arr'[obj[i].genes] = arr[obj[i].genes]
            /\ obj'[c1].genes # obj'[c2].genes
            /\ {obj'[c1].genes, obj'[c2].genes} \cap DOMAIN arr = {}]_vars

Wit_C9 ==
    /\ pc = "reproduce"
    /\ p_size = 1
    /\ Len(children) = 2
    /\ arr[obj[children[1]].genes] # arr[obj[population[1]].genes]
    /\ arr[obj[children[2]].genes] = arr[obj[population[1]].genes]

\* C10 (as claimed): with c_size odd or p_size <= 0, evolve() never raises an
\* error, and when it returns the population size is not p_size + c_size.
CE_C10 ==
    /\ pc # "raised"
    /\ ret.op = "evolve" => Len(population) # p_size + c_size

\* C10 (amended): nothing is rejected before evolve(); with p_size >= 1 and
\* c_size odd every evolve() returns a population whose size is not
\* p_size + c_size (p_size + c_size + 1 for c_size > 0, p_size below); with p_size <= 0 the population is empty and evolve()
\* raises (division by zero) instead of returning.
Thm_C10 ==
    /\ p_size >= 1 =>
        /\ pc # "raised"
        /\ AfterEvolve => /\ Len(population) # p_size + c_size
                          /\ Len(population) = p_size + (IF c_size > 0 THEN c_size + 1 ELSE 0)
    /\ p_size <= 0 =>
        /\ population = <<>>
        /\ pc \in {"new", "idle", "raised"}
        /\ ret.op # "evolve"
        /\ generation >= 1 => pc = "raised"

Wit_C10 ==
    /\ pc = "raised"
    /\ p_size <= 0

====
